---- MODULE Spec2Model ----
(***************************************************************************)
(* The epub ingestion pipeline of server/app.py: the upload handler        *)
(* (epub_upload), the background parser thread (_parse_epub_chapters) and  *)
(* the read handlers (epub_detail, epub_chapters), over the SQLite tables  *)
(* epubs and epub_chapters and the uploads folder.                         *)
(*                                                                         *)
(* The store is modelled as SQLite behaves with Python's sqlite3 default   *)
(* (deferred) transactions: a connection's INSERT/UPDATE opens a write     *)
(* transaction that only db.commit() makes visible to other connections,   *)
(* db.close() rolls an open transaction back, only one connection holds    *)
(* the write lock at a time, and every SELECT of a handler is its own      *)
(* read of the committed state.                                            *)
(***************************************************************************)
EXTENDS Naturals, Sequences, FiniteSets, TLC

VARIABLES
    epubs,      \* table epubs, committed rows; epubid = position
    chapters,   \* table epub_chapters, committed rows; chapterid = position
    files,      \* the uploads folder: file name -> content
    wk,         \* the parser threads, one per started thread: epubid -> locals
    wlock,      \* holder of the SQLite write lock: 0 (free) or a thread's epubid
    req,        \* the request in service: its handler's locals
    resp,       \* the response on its way to the client, if any
    seen,       \* history: epubid -> the first terminal view a client got
    listed      \* history: epubid -> the first chapter list a client got

vars == <<epubs, chapters, files, wk, wlock, req, resp, seen, listed>>

----------------------------------------------------------------------------
(* Bounds *)

MaxEpubs == 2       \* uploads accepted in one behaviour

(* Program constants *)

MsgLimit == 1024    \* str(e)[:1024]
TitleLimit == 512   \* [:512] of titles and authors

----------------------------------------------------------------------------
(* Inputs *)

EpubIds == 1..MaxEpubs       \* the epubid values requests ask for

Users == {"alice", "bob"}
NoUser == "anonymous"       \* get_username_from_token(request) is None

\* A text, by its tokens and its length in characters.
Text(text, len) == [text |-> text, len |-> len]
Empty == Text(<<>>, 0)

\* What soup.find(tag) or book.get_metadata(...) finds: nothing, or an
\* element with its stripped text (which may be empty).
NoTag == [found |-> FALSE, text |-> <<>>, len |-> 0]
Tag(text, len) == [found |-> TRUE, text |-> text, len |-> len]

\* What book.get_item_with_id / item.get_type / soup.get_text find for one
\* spine entry: no item, an item that is not a document, the navigation
\* document, or a document with or without text and its first h1, h2, h3.
Item(type, text, h1, h2, h3) ==
    [type |-> type, text |-> text, h1 |-> h1, h2 |-> h2, h3 |-> h3]
Missing == Item("missing", FALSE, NoTag, NoTag, NoTag)
\* An image's bytes do decode (errors='replace') to text that is not blank.
Image == Item("image", TRUE, NoTag, NoTag, NoTag)
Nav == Item("nav", TRUE, Tag(<<"Contents">>, 8), NoTag, NoTag)
Blank == Item("document", FALSE, NoTag, NoTag, NoTag)
Section(h1, h2, h3) == Item("document", TRUE, h1, h2, h3)
Headed == Section(Tag(<<"One">>, 3), NoTag, NoTag)
Plain == Section(NoTag, NoTag, NoTag)

\* An uploaded file's bytes: an archive ebooklib can read, with its spine and
\* its Dublin Core title and creator, or bytes read_epub raises on.
Archive(spine, title, creator) ==
    [readable |-> TRUE, spine |-> spine, title |-> title, creator |-> creator]
Unreadable ==
    [readable |-> FALSE, spine |-> <<>>, title |-> NoTag, creator |-> NoTag]
Archives ==
    { Unreadable,
      Archive(<<Nav, Blank>>, NoTag, NoTag),
      Archive(<<Missing, Headed, Image, Plain>>,
              Tag(<<"dc:title">>, 600), Tag(<<"dc:creator">>, 8)) }

\* Client file names, as character sequences; NoFile: the form has no 'file'.
NoFile == <<"no file">>
FileNames ==
    { <<"b", ".", "EPUB">>, <<"b", ".", "txt">>, <<".", "epub">>, <<>> }

\* Exceptions, by their str(): a token and the length of the text.
Exc(text, len) == [text |-> text, len |-> len]
ExcConnect   == Exc("unable to open database file", 28)
ExcBadZip    == Exc("File is not a zip file", 22)
ExcOpen      == Exc("No such file or directory", 25)
ExcWrite     == Exc("No space left on device", 2000)
ExcLocked    == Exc("database is locked", 18)
ExcDisk      == Exc("disk I/O error", 14)

Min(a, b) == IF a < b THEN a ELSE b

----------------------------------------------------------------------------
(* Pure helpers *)

\* Truncate without the slice.
TruncateNothing(e, n) == e

\* e[:n] on a text known by token and length
Truncate(e, n) == [e EXCEPT !.len = Min(e.len, n)]

\* Skipped without the item-type test of line 128.
SkippedButImages(kind) ==
    \/ kind.type = "missing"
    \/ kind.type = "nav"
    \/ ~kind.text

\* The entries the loop skips (lines 126-139): no item, not a document, the
\* navigation document, or no text after stripping.
Skipped(kind) ==
    \/ kind.type = "missing"
    \/ kind.type = "image"
    \/ kind.type = "nav"
    \/ ~kind.text

\* f'Chapter {n}'
Digits(n) == IF n < 10 THEN 1 ELSE 2
ChapterLabel(n) == Text(<<"Chapter", n>>, 8 + Digits(n))

\* ChapterTitle with the tags of line 145 tried in the order h3, h2, h1.
ChapterTitleLowestFirst(kind, n) ==
    LET heading == IF kind.h3.found THEN kind.h3
                   ELSE IF kind.h2.found THEN kind.h2
                   ELSE kind.h1
        chapter_title == IF heading.found
                         THEN Truncate(Text(heading.text, heading.len),
                                       TitleLimit)
                         ELSE Empty
    IN IF chapter_title.len = 0 THEN ChapterLabel(n) ELSE chapter_title

\* Lines 144-151: the text of the first of h1, h2, h3 that soup.find returns
\* an element for, cut to 512; "Chapter n" if that text is empty or there is
\* no such element.
ChapterTitle(kind, n) ==
    LET heading == IF kind.h1.found THEN kind.h1
                   ELSE IF kind.h2.found THEN kind.h2
                   ELSE kind.h3
        chapter_title == IF heading.found
                         THEN Truncate(Text(heading.text, heading.len),
                                       TitleLimit)
                         ELSE Empty
    IN IF chapter_title.len = 0 THEN ChapterLabel(n) ELSE chapter_title

\* uuid.uuid4().hex names: fresh, so distinct from every other name. The k-th
\* upload's archive and the n-th chapter text of thread i.
EpubName(k) == <<"epub", k>>
TxtName(i, n) == <<"txt", i, n>>

\* ChapterIds without the WHERE epubid = ? of line 921.
ChapterIdsAnyEpub(tbl, id) == 1..Len(tbl)

\* The chapter rows of one epub, as SELECT ... WHERE epubid = ? sees them.
ChapterIds(tbl, id) == {c \in 1..Len(tbl) : tbl[c].epubid = id}

\* ChapterCount without the WHERE epubid = ? of line 870.
ChapterCountAnyEpub(tbl, id) == Len(tbl)

\* SELECT COUNT(*) FROM epub_chapters WHERE epubid = ?
ChapterCount(tbl, id) == Cardinality(ChapterIds(tbl, id))

\* os.path.splitext(name)[1].lower(): the text from the last dot on.
Lower(c) == IF c = "EPUB" THEN "epub" ELSE c
Suffix(name) ==
    IF \E p \in 2..Len(name) : name[p] = "."
    THEN LET p == CHOOSE q \in 2..Len(name) :
                    name[q] = "." /\ \A r \in (q+1)..Len(name) : name[r] # "."
         IN [j \in 1..(Len(name) - p + 1) |-> Lower(name[p + j - 1])]
    ELSE <<>>

----------------------------------------------------------------------------
NoRow == [epubid |-> 0]
NoView == [none |-> TRUE]

\* A request in service: the handler's locals.
Request(op, pc, user, id) ==
    [op |-> op, pc |-> pc, user |-> user, id |-> id, row |-> NoRow]

NoReq == Request("none", "idle", "", 0)

\* A response: the request it answers, the status code, the error code of a
\* JSON error body and the JSON view of a success.
Response(r, code, error, view) ==
    [op |-> r.op, user |-> r.user, id |-> r.id, row |-> r.row,
     code |-> code, error |-> error, view |-> view]

NoResp == Response(NoReq, 0, "", NoView)

Init ==
    /\ epubs = <<>>
    /\ chapters = <<>>
    /\ files = <<>>
    /\ wk = <<>>
    /\ wlock = 0
    /\ req = NoReq
    /\ resp = NoResp
    /\ seen = <<>>
    /\ listed = <<>>

----------------------------------------------------------------------------
(* The store *)

\* No response is on its way to the client.
Quiet == resp = NoResp

NoMsg == [text |-> "NULL", len |-> 0]      \* error_message IS NULL

\* A write statement of thread i is refused while another connection holds the
\* write lock ("database is locked" once the busy timeout passes).
CanWrite(i) == wlock \in {0, i}

\* CommitTx with the status flip committed ahead of the chapter rows.
CommitStatusOnly(i, tx, status, msg) ==
    /\ chapters' = chapters
    /\ epubs' = [epubs EXCEPT ![i].status = status, ![i].error_message = msg]
    /\ wlock' = 0

\* CommitTx with an UPDATE that has no WHERE epubid = ?: every record is set.
CommitTxEveryRecord(i, tx, status, msg) ==
    /\ chapters' = chapters \o tx
    /\ epubs' = [j \in DOMAIN epubs |->
                   [epubs[j] EXCEPT !.status = status, !.error_message = msg]]
    /\ wlock' = 0

\* CommitTx with the chapter rows committed and the UPDATE of the record lost.
CommitRowsOnly(i, tx, status, msg) ==
    /\ chapters' = chapters \o tx
    /\ epubs' = epubs
    /\ wlock' = 0

\* db.commit() of a transaction holding the chapter rows tx and the UPDATE of
\* epub i to (status, msg).
CommitTx(i, tx, status, msg) ==
    /\ chapters' = chapters \o tx
    /\ epubs' = [epubs EXCEPT ![i].status = status, ![i].error_message = msg]
    /\ wlock' = 0

----------------------------------------------------------------------------
(* _parse_epub_chapters(epubid, filepath), the thread started by epub_upload *)

NewWorker(path) ==
    [pc |-> "open", filepath |-> path, db |-> FALSE, idx |-> 0,
     chapter_number |-> 0, chapter_files |-> <<>>, tx |-> <<>>, e |-> NoMsg,
     flip_failed |-> FALSE]

\* Thread i has been started, and no response is being handed over.
Started(i) == Quiet /\ i \in DOMAIN wk

\* An exception reaches the handler of line 179.
Raise(w, exc) == [w EXCEPT !.pc = "except", !.e = exc]

\* Ended without the db.close() of line 198.
EndedNotClosed(w) ==
    [w EXCEPT !.pc = "done", !.idx = 0, !.chapter_number = 0, !.tx = <<>>]

\* Ended with the handler of line 178 entered again instead of the return.
EndedRestarts(w) == [w EXCEPT !.pc = "except", !.tx = <<>>]

\* The thread has returned: the connection is closed (lines 196-198) and the
\* loop's counters are gone; the exception and the tracked files are kept to
\* tell how the run went.
Ended(w) ==
    [w EXCEPT !.pc = "done", !.db = FALSE, !.idx = 0, !.chapter_number = 0,
              !.tx = <<>>]

\* Lines 113-123: sqlite3.connect (db stays None if it raises), read_epub and
\* the spine ids.
WorkerOpen(i) ==
    /\ Started(i)
    /\ wk[i].pc = "open"
    /\ \/ wk' = [wk EXCEPT ![i] = Raise(@, ExcConnect)]
       \/ /\ ~files[wk[i].filepath].readable
          /\ wk' = [wk EXCEPT ![i] = Raise([@ EXCEPT !.db = TRUE], ExcBadZip)]
       \/ /\ files[wk[i].filepath].readable
          /\ wk' = [wk EXCEPT ![i].db = TRUE, ![i].pc = "loop", ![i].idx = 1]
    /\ UNCHANGED <<epubs, chapters, files, wlock, req, resp, seen, listed>>

\* ChapterRow numbering from 0: the row is built ahead of the increment of
\* line 141.
ChapterRowFromZero(i, n, kind) ==
    [epubid |-> i, chapter_number |-> n - 1, title |-> ChapterTitle(kind, n),
     filename |-> TxtName(i, n)]

\* The row of line 159-163 for the section just numbered.
ChapterRow(i, n, kind) ==
    [epubid |-> i, chapter_number |-> n, title |-> ChapterTitle(kind, n),
     filename |-> TxtName(i, n)]

\* What open(txt_filepath, 'w') followed by a failed f.write leaves on disk.
PartialText == [text |-> <<0, 0>>]      \* the whole text of no section
FullText(i, idx) == [text |-> <<i, idx>>]

\* Lines 124-163: one pass of the loop over the spine.
WorkerItem(i) ==
    LET w == wk[i]
        spine == files[w.filepath].spine
        kind == spine[w.idx]
        n == w.chapter_number + 1
        name == TxtName(i, n)
        counted == [w EXCEPT !.chapter_number = n]
        written == [counted EXCEPT !.chapter_files = Append(@, name)]
    IN
    /\ Started(i)
    /\ w.pc = "loop"
    /\ w.idx <= Len(spine)
    /\ \/ \* lines 126-139: continue
          /\ Skipped(kind)
          /\ wk' = [wk EXCEPT ![i].idx = @ + 1]
          /\ UNCHANGED <<files, wlock>>
       \/ \* lines 141-163: the text file is written and the row inserted
          /\ ~Skipped(kind)
          /\ CanWrite(i)
          /\ files' = (name :> FullText(i, w.idx)) @@ files
          /\ wk' = [wk EXCEPT ![i] =
                      [written EXCEPT !.idx = @ + 1,
                                      !.tx = Append(@, ChapterRow(i, n, kind))]]
          /\ wlock' = i
       \/ \* line 155: open() raises, no file is created
          /\ ~Skipped(kind)
          /\ wk' = [wk EXCEPT ![i] = Raise(counted, ExcOpen)]
          /\ UNCHANGED <<files, wlock>>
       \/ \* line 156: f.write raises after open() created the file
          /\ ~Skipped(kind)
          /\ files' = (name :> PartialText) @@ files
          /\ wk' = [wk EXCEPT ![i] = Raise(counted, ExcWrite)]
          /\ UNCHANGED wlock
       \/ \* line 159: the INSERT raises, the file is written and tracked
          /\ ~Skipped(kind)
          /\ ~CanWrite(i)
          /\ files' = (name :> FullText(i, w.idx)) @@ files
          /\ wk' = [wk EXCEPT ![i] = Raise(written, ExcLocked)]
          /\ UNCHANGED wlock
    /\ UNCHANGED <<epubs, chapters, req, resp, seen, listed>>

FixedMessage == Exc("No readable chapters found in epub", 34)

\* FinalStatus without the test of line 165.
FinalStatusAlwaysParsed(n) == "PARSED"

\* FinalStatus with the test of line 165 turned round.
FinalStatusInverted(n) == IF n = 0 THEN "PARSED" ELSE "FAILED"

\* The UPDATE of lines 165-174.
FinalStatus(n) == IF n = 0 THEN "FAILED" ELSE "PARSED"
FinalMessage(i, n) == IF n = 0 THEN FixedMessage ELSE epubs[i].error_message

\* AfterCommit with a statement after the commit raising inside the try.
AfterCommitRaises(w) == Raise(w, ExcDisk)

\* Lines 177 and 196-198: the commit has returned; the run is logged and the
\* connection closed.
AfterCommit(w) == Ended(w)

\* Lines 165-177, then the finally of lines 196-198.
WorkerFinish(i) ==
    LET w == wk[i]
        spine == files[w.filepath].spine
    IN
    /\ Started(i)
    /\ w.pc = "loop"
    /\ w.idx > Len(spine)
    /\ \/ \* the UPDATE and the commit succeed
          /\ CanWrite(i)
          /\ CommitTx(i, w.tx, FinalStatus(w.chapter_number),
                      FinalMessage(i, w.chapter_number))
          /\ wk' = [wk EXCEPT ![i] = AfterCommit(@)]
       \/ \* the UPDATE raises
          /\ ~CanWrite(i)
          /\ wk' = [wk EXCEPT ![i] = Raise(@, ExcLocked)]
          /\ UNCHANGED <<epubs, chapters, wlock>>
       \/ \* db.commit() raises, the transaction stays open
          /\ CanWrite(i)
          /\ wk' = [wk EXCEPT ![i] = Raise(@, ExcDisk)]
          /\ wlock' = i
          /\ UNCHANGED <<epubs, chapters>>
    /\ UNCHANGED <<files, req, resp, seen, listed>>

Range(s) == {s[j] : j \in 1..Len(s)}

\* Lines 180-186: remove the tracked files; a remove that raises is passed over.
WorkerCleanup(i) ==
    LET w == wk[i] IN
    /\ Started(i)
    /\ w.pc = "except"
    /\ \E kept \in SUBSET Range(w.chapter_files) :
          files' = [f \in (DOMAIN files) \ (Range(w.chapter_files) \ kept)
                       |-> files[f]]
    /\ wk' = [wk EXCEPT ![i] = IF w.db THEN [@ EXCEPT !.pc = "flip"]
                                       ELSE Ended(@)]
    /\ UNCHANGED <<epubs, chapters, wlock, req, resp, seen, listed>>

\* WorkerFailFlip without the commit of line 193: close() rolls the UPDATE back.
WorkerFailFlipNoCommit(i) ==
    /\ Started(i)
    /\ wk[i].pc = "flip"
    /\ wlock' = IF wlock = i THEN 0 ELSE wlock
    /\ wk' = [wk EXCEPT ![i] = Ended(@)]
    /\ UNCHANGED <<epubs, chapters, files, req, resp, seen, listed>>

\* WorkerFailFlip where a failed flip leaves the thread's transaction
\* committed instead of rolled back by close().
WorkerFailFlipKeepsRows(i) ==
    /\ Started(i)
    /\ wk[i].pc = "flip"
    /\ chapters' = chapters \o wk[i].tx
    /\ wlock' = IF wlock = i THEN 0 ELSE wlock
    /\ wk' = [wk EXCEPT ![i] = Ended([@ EXCEPT !.flip_failed = TRUE])]
    /\ UNCHANGED <<epubs, files, req, resp, seen, listed>>

\* Lines 187-198: the failure flip on the same connection, then db.close().
WorkerFailFlip(i) ==
    LET w == wk[i] IN
    /\ Started(i)
    /\ w.pc = "flip"
    /\ \/ \* UPDATE and commit succeed: the open transaction is committed
          /\ CanWrite(i)
          /\ CommitTx(i, w.tx, "FAILED", Truncate(w.e, MsgLimit))
          /\ wk' = [wk EXCEPT ![i] = Ended(@)]
       \/ \* UPDATE or commit raises (logged); close() rolls back
          /\ wlock' = IF wlock = i THEN 0 ELSE wlock
          /\ wk' = [wk EXCEPT ![i] = Ended([@ EXCEPT !.flip_failed = TRUE])]
          /\ UNCHANGED <<epubs, chapters>>
    /\ UNCHANGED <<files, req, resp, seen, listed>>

----------------------------------------------------------------------------
(* Request handlers. One request is in service at a time; its handler's     *)
(* statements interleave with the parser threads.                          *)

\* The handler goes on to its next statement.
Continue(r) == req' = r /\ resp' = NoResp

\* The handler returns.
Respond(r, code, error, view) ==
    req' = NoReq /\ resp' = Response(r, code, error, view)

CanBegin == Quiet /\ req.pc = "idle"

\* The response leaves the server. Handing it over touches nothing shared, so
\* it is taken as the step right after the handler's last statement.
Deliver ==
    /\ ~Quiet
    /\ resp' = NoResp
    /\ UNCHANGED <<epubs, chapters, files, wk, wlock, req, seen, listed>>

EpubExt == <<".", "epub">>

\* The length in characters of a name's tokens.
CharLen(c) ==
    IF c \in {"EPUB", "epub"} THEN 4
    ELSE IF c = "txt" THEN 3
    ELSE IF c = "long" THEN 600
    ELSE 1

RECURSIVE TextLen(_)
TextLen(name) ==
    IF name = <<>> THEN 0 ELSE CharLen(Head(name)) + TextLen(Tail(name))

\* os.path.splitext(name)[0]
Stem(name) == SubSeq(name, 1, Len(name) - Len(Suffix(name)))

\* value[:512] of a metadata value that is there and not empty
Present(value) == value.found /\ value.len > 0

\* ExtractEpubMetadata without the [:512] of line 87.
ExtractEpubMetadataUncut(archive, fallback_name) ==
    [title |-> IF archive.readable /\ Present(archive.title)
               THEN Truncate(Text(archive.title.text, archive.title.len),
                             TitleLimit)
               ELSE Text(Stem(fallback_name), TextLen(Stem(fallback_name))),
     author |-> IF archive.readable /\ Present(archive.creator)
                THEN Truncate(Text(archive.creator.text, archive.creator.len),
                              TitleLimit)
                ELSE Empty]

\* _extract_epub_metadata (lines 80-99): the file name without its extension
\* and '', replaced by the Dublin Core title and creator a readable archive
\* has; each cut to 512.
ExtractEpubMetadata(archive, fallback_name) ==
    LET title == Truncate(Text(Stem(fallback_name),
                               TextLen(Stem(fallback_name))), TitleLimit)
        author == Empty
    IN IF archive.readable
       THEN [title |-> IF Present(archive.title)
                       THEN Truncate(Text(archive.title.text,
                                          archive.title.len), TitleLimit)
                       ELSE title,
             author |-> IF Present(archive.creator)
                        THEN Truncate(Text(archive.creator.text,
                                           archive.creator.len), TitleLimit)
                        ELSE author]
       ELSE [title |-> title, author |-> author]

SavedEpubs == {f \in DOMAIN files : f[1] = "epub"}

\* EpubUpload with file.save ahead of the extension test of line 796.
EpubUploadSaveFirst(u, name) ==
    LET r == Request("upload", "insert", u, 0)
        stored == EpubName(Cardinality(SavedEpubs) + 1)
    IN
    /\ CanBegin
    /\ u # NoUser /\ name # NoFile /\ name # <<>>
    /\ Suffix(name) # EpubExt
    /\ files' = (stored :> Unreadable) @@ files
    /\ Respond(r, 400, "invalid_file_type", NoView)
    /\ UNCHANGED <<epubs, chapters, wk, wlock, seen, listed>>

\* EpubUploadOf with file.save of line 803 put off until after the thread
\* start: the handler goes on without the file in the uploads folder.
EpubUploadOfSaveLast(u, name, archives) ==
    LET r == Request("upload", "insert", u, 0)
        stored == EpubName(Len(epubs) + 1)
    IN
    /\ CanBegin
    /\ u # NoUser /\ name # NoFile /\ name # <<>> /\ Suffix(name) = EpubExt
    /\ Len(epubs) < MaxEpubs
    /\ \E archive \in archives :
         LET meta == ExtractEpubMetadata(archive, name) IN
         Continue([r EXCEPT !.row =
             [owner |-> u, title |-> meta.title, author |-> meta.author,
              original_filename |-> name, stored_filename |-> stored,
              status |-> "LOADING", error_message |-> NoMsg, created |-> 0]])
    /\ UNCHANGED <<epubs, chapters, files, wk, wlock, seen, listed>>

\* epub_upload, lines 784-805: the checks, file.save and the metadata, for a
\* file whose bytes are one of archives.
EpubUploadOf(u, name, archives) ==
    LET r == Request("upload", "insert", u, 0)
        stored == EpubName(Cardinality(SavedEpubs) + 1)
    IN
    /\ CanBegin
    /\ IF u = NoUser
       THEN Respond(r, 403, "", NoView) /\ UNCHANGED files
       ELSE IF name = NoFile \/ name = <<>>
       THEN Respond(r, 400, "", NoView) /\ UNCHANGED files
       ELSE IF Suffix(name) # EpubExt
       THEN Respond(r, 400, "invalid_file_type", NoView) /\ UNCHANGED files
       ELSE /\ Cardinality(SavedEpubs) < MaxEpubs
            /\ \E archive \in archives :
                 LET meta == ExtractEpubMetadata(archive, name) IN
                 /\ files' = (stored :> archive) @@ files
                 /\ Continue([r EXCEPT !.row =
                       [owner |-> u, title |-> meta.title,
                        author |-> meta.author,
                        original_filename |-> name,
                        stored_filename |-> stored,
                        status |-> "LOADING", error_message |-> NoMsg,
                        created |-> 0]])
    /\ UNCHANGED <<epubs, chapters, wk, wlock, seen, listed>>

EpubUpload(u, name) == EpubUploadOf(u, name, Archives)

\* The column default of epubs.created: the clock's second at the INSERT,
\* the second of the previous INSERT or a later one.
CreatedNow(tbl) ==
    IF tbl = <<>> THEN {1}
    ELSE {tbl[Len(tbl)].created, tbl[Len(tbl)].created + 1}

\* Lines 807-814: INSERT INTO epubs and commit on the request's connection.
EpubUploadInsert ==
    /\ Quiet
    /\ req.op = "upload" /\ req.pc = "insert"
    /\ \/ /\ wlock = 0
          /\ \E now \in CreatedNow(epubs) :
                epubs' = Append(epubs, [req.row EXCEPT !.created = now])
          /\ Continue([req EXCEPT !.pc = "start", !.id = Len(epubs) + 1])
       \/ \* the INSERT raises while a thread holds the write lock
          /\ wlock # 0
          /\ Respond(req, 500, "internal_server_error", NoView)
          /\ UNCHANGED epubs
    /\ UNCHANGED <<chapters, files, wk, wlock, seen, listed>>

\* EpubUploadStart with the thread given the first record instead of the one
\* just inserted.
EpubUploadStartFirstRecord ==
    /\ Quiet
    /\ req.op = "upload" /\ req.pc = "start"
    /\ wk' = (1 :> NewWorker(epubs[1].stored_filename)) @@
             [i \in (DOMAIN wk) \ {1} |-> wk[i]]
    /\ Continue([req EXCEPT !.pc = "reread"])
    /\ UNCHANGED <<epubs, chapters, files, wlock, seen, listed>>

\* Lines 816-821: threading.Thread(...).start()
EpubUploadStart ==
    /\ Quiet
    /\ req.op = "upload" /\ req.pc = "start"
    /\ wk' = (req.id :> NewWorker(req.row.stored_filename)) @@ wk
    /\ Continue([req EXCEPT !.pc = "reread"])
    /\ UNCHANGED <<epubs, chapters, files, wlock, seen, listed>>

\* _to_iso (lines 69-77): 'YYYY-MM-DD HH:MM:SS' read as UTC and written in
\* ISO 8601 with its offset.
ToIso(ts) == <<ts, "+00:00">>

\* The record view of epub_upload, epub_detail and epub_list.
EpubView(id, row, count) ==
    [id |-> id, title |-> row.title, author |-> row.author,
     status |-> row.status, originalFilename |-> row.original_filename,
     errorMessage |-> row.error_message, createdAt |-> ToIso(row.created),
     chapterCount |-> count]

\* EpubUploadRespond after a thread.join(): the row is read back once the
\* thread has returned.
EpubUploadRespondJoined ==
    /\ Quiet
    /\ req.op = "upload" /\ req.pc = "reread"
    /\ wk[req.id].pc = "done"
    /\ Respond(req, 201, "", EpubView(req.id, epubs[req.id], 0))
    /\ UNCHANGED <<epubs, chapters, files, wk, wlock, seen, listed>>

\* Lines 823-838: the row is read back and returned with 201 (the view of
\* epub_upload has no chapterCount: 0 stands for its absence).
EpubUploadRespond ==
    /\ Quiet
    /\ req.op = "upload" /\ req.pc = "reread"
    /\ Respond(req, 201, "", EpubView(req.id, epubs[req.id], 0))
    /\ UNCHANGED <<epubs, chapters, files, wk, wlock, seen, listed>>

\* EpubDetail with the row looked up ahead of the session test of line 856.
EpubDetailLookupFirst(u, id) ==
    LET r == Request("detail", "count", u, id) IN
    /\ CanBegin
    /\ IF id > Len(epubs) THEN Respond(r, 404, "", NoView)
       ELSE IF u = NoUser THEN Respond(r, 403, "", NoView)
       ELSE IF epubs[id].owner # u THEN Respond(r, 403, "", NoView)
       ELSE Continue([r EXCEPT !.row = epubs[id]])
    /\ UNCHANGED <<epubs, chapters, files, wk, wlock, seen, listed>>

\* EpubDetail without the owner test of line 866.
EpubDetailNoOwnerCheck(u, id) ==
    LET r == Request("detail", "count", u, id) IN
    /\ CanBegin
    /\ IF u = NoUser THEN Respond(r, 403, "", NoView)
       ELSE IF id > Len(epubs) THEN Respond(r, 404, "", NoView)
       ELSE Continue([r EXCEPT !.row = epubs[id]])
    /\ UNCHANGED <<epubs, chapters, files, wk, wlock, seen, listed>>

\* epub_detail, lines 855-867: the session, then the epubs row.
EpubDetail(u, id) ==
    LET r == Request("detail", "count", u, id) IN
    /\ CanBegin
    /\ IF u = NoUser THEN Respond(r, 403, "", NoView)
       ELSE IF id > Len(epubs) THEN Respond(r, 404, "", NoView)
       ELSE IF epubs[id].owner # u THEN Respond(r, 403, "", NoView)
       ELSE Continue([r EXCEPT !.row = epubs[id]])
    /\ UNCHANGED <<epubs, chapters, files, wk, wlock, seen, listed>>

\* Lines 869-882: the COUNT(*) of the chapters, then the response.
EpubDetailCount ==
    /\ Quiet
    /\ req.op = "detail" /\ req.pc = "count"
    /\ Respond(req, 200, "",
               EpubView(req.id, req.row, ChapterCount(chapters, req.id)))
    /\ UNCHANGED <<epubs, chapters, files, wk, wlock, seen, listed>>

\* StatusGate without the LOADING test of line 913.
StatusGateNoLoading(status) ==
    IF status = "FAILED" THEN "epub_parse_failed" ELSE ""

\* StatusGate without the FAILED test of line 916.
StatusGateNoFailed(status) ==
    IF status = "LOADING" THEN "epub_still_loading" ELSE ""

\* Lines 913-918: the error code a status is refused with, '' if it is not.
StatusGate(status) ==
    IF status = "LOADING" THEN "epub_still_loading"
    ELSE IF status = "FAILED" THEN "epub_parse_failed"
    ELSE ""

\* EpubChapters with the status gates of lines 913-918 ahead of the owner
\* test of line 911.
EpubChaptersStatusFirst(u, id) ==
    LET r == Request("chapters", "rows", u, id)
        got == [r EXCEPT !.row = epubs[id]]
    IN
    /\ CanBegin
    /\ IF u = NoUser THEN Respond(r, 403, "", NoView)
       ELSE IF id > Len(epubs) THEN Respond(r, 404, "", NoView)
       ELSE IF StatusGate(epubs[id].status) # ""
       THEN Respond(got, 409, StatusGate(epubs[id].status), NoView)
       ELSE IF epubs[id].owner # u THEN Respond(r, 403, "", NoView)
       ELSE Continue(got)
    /\ UNCHANGED <<epubs, chapters, files, wk, wlock, seen, listed>>

\* epub_chapters, lines 901-918: the session, the row and the status gates.
EpubChapters(u, id) ==
    LET r == Request("chapters", "rows", u, id)
        got == [r EXCEPT !.row = epubs[id]]
    IN
    /\ CanBegin
    /\ IF u = NoUser THEN Respond(r, 403, "", NoView)
       ELSE IF id > Len(epubs) THEN Respond(r, 404, "", NoView)
       ELSE IF epubs[id].owner # u THEN Respond(r, 403, "", NoView)
       ELSE IF StatusGate(epubs[id].status) # ""
       THEN Respond(got, 409, StatusGate(epubs[id].status), NoView)
       ELSE Continue(got)
    /\ UNCHANGED <<epubs, chapters, files, wk, wlock, seen, listed>>

\* ORDER BY chapter_number ASC over the chapter ids S of table tbl.
RECURSIVE OrderByNumber(_, _)
OrderByNumber(tbl, S) ==
    IF S = {} THEN <<>>
    ELSE LET c == CHOOSE x \in S : \A y \in S :
                      \/ tbl[x].chapter_number < tbl[y].chapter_number
                      \/ /\ tbl[x].chapter_number = tbl[y].chapter_number
                         /\ x <= y
         IN <<c>> \o OrderByNumber(tbl, S \ {c})

ChapterView(tbl, c) ==
    [id |-> c, chapterNumber |-> tbl[c].chapter_number, title |-> tbl[c].title,
     filename |-> tbl[c].filename]

\* The JSON list of lines 920-933 for epub id over table tbl.
ChapterList(tbl, id) ==
    LET ids == OrderByNumber(tbl, ChapterIds(tbl, id)) IN
    [j \in 1..Len(ids) |-> ChapterView(tbl, ids[j])]

\* Lines 920-933: the chapter rows in order, as views.
EpubChaptersRows ==
    /\ Quiet
    /\ req.op = "chapters" /\ req.pc = "rows"
    /\ Respond(req, 200, "", ChapterList(chapters, req.id))
    /\ UNCHANGED <<epubs, chapters, files, wk, wlock, seen, listed>>

\* ORDER BY created DESC over the rows S of table tbl: every order of the
\* ids with no row before a newer one; rows of one second come in any order.
NewestFirst(tbl, S) ==
    { p \in [1..Cardinality(S) -> S] :
        /\ \A a, b \in 1..Cardinality(S) : a # b => p[a] # p[b]
        /\ \A a, b \in 1..Cardinality(S) :
              a < b => tbl[p[a]].created >= tbl[p[b]].created }

OwnedBy(tbl, u) == {i \in 1..Len(tbl) : tbl[i].owner = u}

\* epub_list, lines 945-954: the session, then the owner's rows.
EpubList(u) ==
    LET r == Request("list", "count", u, 0) IN
    /\ CanBegin
    /\ IF u = NoUser THEN Respond(r, 403, "", NoView)
       ELSE IF OwnedBy(epubs, u) = {} THEN Respond(r, 200, "", <<>>)
       ELSE \E p \in NewestFirst(epubs, OwnedBy(epubs, u)) :
              Continue([r EXCEPT !.row =
                 [rows |-> [j \in DOMAIN p |-> [epubid |-> p[j],
                                                r |-> epubs[p[j]]]],
                  epubs |-> <<>>]])
    /\ UNCHANGED <<epubs, chapters, files, wk, wlock, seen, listed>>

\* Lines 956-972: one pass of the loop, the COUNT(*) of the next row; the
\* list is returned after the last.
EpubListCount ==
    LET k == Len(req.row.epubs) + 1
        row == req.row.rows[k]
        list == Append(req.row.epubs,
                       EpubView(row.epubid, row.r,
                                ChapterCount(chapters, row.epubid)))
    IN
    /\ Quiet
    /\ req.op = "list" /\ req.pc = "count"
    /\ IF k = Len(req.row.rows)
       THEN Respond(req, 200, "", list)
       ELSE Continue([req EXCEPT !.row.epubs = list])
    /\ UNCHANGED <<epubs, chapters, files, wk, wlock, seen, listed>>

----------------------------------------------------------------------------
Next ==
    \/ \E u \in Users \cup {NoUser}, name \in FileNames \cup {NoFile} :
            EpubUpload(u, name)
    \/ EpubUploadInsert
    \/ EpubUploadStart
    \/ EpubUploadRespond
    \/ \E u \in Users \cup {NoUser}, id \in EpubIds : EpubDetail(u, id)
    \/ EpubDetailCount
    \/ \E u \in Users \cup {NoUser}, id \in EpubIds : EpubChapters(u, id)
    \/ EpubChaptersRows
    \/ \E u \in Users \cup {NoUser} : EpubList(u)
    \/ EpubListCount
    \/ \E i \in EpubIds : WorkerOpen(i)
    \/ \E i \in EpubIds : WorkerItem(i)
    \/ \E i \in EpubIds : WorkerFinish(i)
    \/ \E i \in EpubIds : WorkerCleanup(i)
    \/ \E i \in EpubIds : WorkerFailFlip(i)
    \/ Deliver

Spec == Init /\ [][Next]_vars

----------------------------------------------------------------------------
(* The same program with the clients' observations recorded: the first     *)
(* terminal view of each record that epub_detail has handed to a client.   *)

Terminal(status) == status \in {"PARSED", "FAILED"}

Observation(view) == [status |-> view.status, chapterCount |-> view.chapterCount]

DeliverSeen ==
    /\ ~Quiet
    /\ resp' = NoResp
    /\ seen' = IF /\ resp.op = "detail" /\ resp.code = 200
                  /\ Terminal(resp.view.status)
                  /\ resp.id \notin DOMAIN seen
               THEN (resp.id :> Observation(resp.view)) @@ seen
               ELSE seen
    /\ UNCHANGED <<epubs, chapters, files, wk, wlock, req, listed>>

NextReads ==
    \/ \E u \in Users \cup {NoUser}, name \in FileNames \cup {NoFile} :
            EpubUpload(u, name)
    \/ EpubUploadInsert
    \/ EpubUploadStart
    \/ EpubUploadRespond
    \/ \E u \in Users \cup {NoUser}, id \in EpubIds : EpubDetail(u, id)
    \/ EpubDetailCount
    \/ \E u \in Users \cup {NoUser}, id \in EpubIds : EpubChapters(u, id)
    \/ EpubChaptersRows
    \/ \E u \in Users \cup {NoUser} : EpubList(u)
    \/ EpubListCount
    \/ \E i \in EpubIds : WorkerOpen(i)
    \/ \E i \in EpubIds : WorkerItem(i)
    \/ \E i \in EpubIds : WorkerFinish(i)
    \/ \E i \in EpubIds : WorkerCleanup(i)
    \/ \E i \in EpubIds : WorkerFailFlip(i)
    \/ DeliverSeen

SpecReads == Init /\ [][NextReads]_vars

\* The same, with the first chapter list of each record that epub_chapters
\* has handed to a client.
DeliverListed ==
    /\ ~Quiet
    /\ resp' = NoResp
    /\ listed' = IF /\ resp.op = "chapters" /\ resp.code = 200
                    /\ resp.id \notin DOMAIN listed
                 THEN (resp.id :> resp.view) @@ listed
                 ELSE listed
    /\ UNCHANGED <<epubs, chapters, files, wk, wlock, req, seen>>

NextLists ==
    \/ \E u \in Users \cup {NoUser}, name \in FileNames \cup {NoFile} :
            EpubUpload(u, name)
    \/ EpubUploadInsert
    \/ EpubUploadStart
    \/ EpubUploadRespond
    \/ \E u \in Users \cup {NoUser}, id \in EpubIds : EpubDetail(u, id)
    \/ EpubDetailCount
    \/ \E u \in Users \cup {NoUser}, id \in EpubIds : EpubChapters(u, id)
    \/ EpubChaptersRows
    \/ \E u \in Users \cup {NoUser} : EpubList(u)
    \/ EpubListCount
    \/ \E i \in EpubIds : WorkerOpen(i)
    \/ \E i \in EpubIds : WorkerItem(i)
    \/ \E i \in EpubIds : WorkerFinish(i)
    \/ \E i \in EpubIds : WorkerCleanup(i)
    \/ \E i \in EpubIds : WorkerFailFlip(i)
    \/ DeliverListed

SpecLists == Init /\ [][NextLists]_vars

----------------------------------------------------------------------------
(* One upload of one user, over a wider range of file names, metadata and  *)
(* spines, with its thread and its owner's reads.                          *)

MaxSpine == 2       \* spine entries of an archive

Short(word) == Tag(<<word>>, 5)
Long == Tag(<<"long">>, 600)
NoText == Tag(<<>>, 0)

RichSections ==
    { Plain, Headed,
      Section(Long, NoTag, NoTag),
      Section(NoText, Short("Two"), NoTag),
      Section(NoTag, Short("Two"), Short("Three")),
      Section(NoTag, NoTag, Short("Three")),
      Section(Short("One"), Short("Two"), Short("Three")),
      Section(NoTag, NoText, Short("Three")),
      Section(NoTag, NoTag, NoText) }

RichItems == {Missing, Image, Nav, Blank} \cup RichSections

RichSpines == UNION {[1..n -> RichItems] : n \in 1..MaxSpine}

RichNames ==
    { <<"b", ".", "EPUB">>, <<"long", ".", "epub">>,
      <<"a", ".", "b", ".", "epub">> }

RichUploads ==
    { [name |-> <<"b", ".", "EPUB">>,
       archive |-> Archive(spine, Short("dc:title"), Short("dc:creator"))] :
         spine \in RichSpines }
    \cup
    { [name |-> name, archive |-> archive] :
         name \in RichNames,
         archive \in {Unreadable} \cup
            { Archive(<<Plain>>, title, creator) :
                 title \in {NoTag, NoText, Short("dc:title"), Long},
                 creator \in {NoTag, NoText, Long} } }

\* The first upload.
EpubUploadFirst(u, name, archive) ==
    /\ SavedEpubs = {}
    /\ EpubUploadOf(u, name, {archive})

NextParse ==
    \/ \E up \in RichUploads : EpubUploadFirst("alice", up.name, up.archive)
    \/ EpubUploadInsert
    \/ EpubUploadStart
    \/ EpubUploadRespond
    \/ EpubDetail("alice", 1)
    \/ EpubDetailCount
    \/ EpubChapters("alice", 1)
    \/ EpubChaptersRows
    \/ \E i \in EpubIds : WorkerOpen(i)
    \/ \E i \in EpubIds : WorkerItem(i)
    \/ \E i \in EpubIds : WorkerFinish(i)
    \/ \E i \in EpubIds : WorkerCleanup(i)
    \/ \E i \in EpubIds : WorkerFailFlip(i)
    \/ Deliver

SpecParse == Init /\ [][NextParse]_vars

----------------------------------------------------------------------------
(* Scheduling. The parser threads are daemon threads of the interpreter,   *)
(* runnable from thread.start until they return, and a handler that has    *)
(* begun runs to its response. A thread's step is written as enabled only  *)
(* between responses, so its fairness is strong; the handler's steps and   *)
(* the delivery stay enabled until taken, so theirs is weak.               *)

WorkerStep(i) ==
    \/ WorkerOpen(i)
    \/ WorkerItem(i)
    \/ WorkerFinish(i)
    \/ WorkerCleanup(i)
    \/ WorkerFailFlip(i)

NextLive ==
    \/ EpubUpload("alice", <<"b", ".", "EPUB">>)
    \/ EpubUploadInsert
    \/ EpubUploadStart
    \/ EpubUploadRespond
    \/ \E id \in EpubIds : EpubDetail("alice", id)
    \/ EpubDetailCount
    \/ \E i \in EpubIds : WorkerStep(i)
    \/ Deliver

Fairness ==
    /\ WF_vars(EpubUploadInsert)
    /\ WF_vars(EpubUploadStart)
    /\ WF_vars(EpubUploadRespond)
    /\ WF_vars(EpubDetailCount)
    /\ WF_vars(Deliver)
    /\ \A i \in EpubIds : SF_vars(WorkerStep(i))

SpecLive == Init /\ [][NextLive]_vars /\ Fairness

----------------------------------------------------------------------------
(* Terms of the properties *)

\* The archive uploaded for epub i (its stored file is never removed).
ArchiveOf(i) == files[epubs[i].stored_filename]

\* A spine entry that is a content document with text: a section (spec 4.1).
YieldsSection(kind) == kind.type = "document" /\ kind.text

\* N: the number of non-empty content sections of a spine.
RECURSIVE SectionCount(_)
SectionCount(spine) ==
    IF spine = <<>> THEN 0
    ELSE (IF YieldsSection(Head(spine)) THEN 1 ELSE 0)
         + SectionCount(Tail(spine))

Sections(i) == SectionCount(ArchiveOf(i).spine)

\* The chapter-text files thread i created that are in the uploads folder.
TxtFiles(i) == {f \in DOMAIN files : f[1] = "txt" /\ f[2] = i}

\* Thread i has returned.
Finished(i) == i \in DOMAIN wk /\ wk[i].pc = "done"

\* Every os.remove of thread i's cleanup took its file away.
RemovesSucceeded(i) ==
    \A f \in Range(wk[i].chapter_files) : f \notin DOMAIN files

\* The request answered by resp came from the epub's owner and found its row.
OwnerFound == resp.row # NoRow /\ resp.row.owner = resp.user

Numbers(list) == [j \in 1..Len(list) |-> list[j].chapterNumber]
OneTo(n) == [j \in 1..n |-> j]

----------------------------------------------------------------------------
(* C1. Atomic visibility under PARSED: whenever the committed status of an  *)
(* epub is PARSED all N chapter rows of its archive are committed, and a   *)
(* reader whose row read saw PARSED gets chapterCount = N from epub_detail *)
(* and N entries from epub_chapters, however its reads interleave with the *)
(* parser threads.                                                         *)
C1_AtomicVisibility ==
    /\ \A i \in 1..Len(epubs) :
         epubs[i].status = "PARSED"
            => ChapterCount(chapters, i) = Sections(i)
    /\ (resp.op = "detail" /\ resp.code = 200 /\ resp.view.status = "PARSED")
            => resp.view.chapterCount = Sections(resp.id)
    /\ (resp.op = "chapters" /\ resp.code = 200 /\ resp.row.status = "PARSED")
            => Len(resp.view) = Sections(resp.id)

\* A PARSED epub's two chapters are listed while another thread holds
\* uncommitted chapter rows.
C1_Witness ==
    /\ resp.op = "chapters" /\ resp.code = 200 /\ Len(resp.view) = 2
    /\ \E j \in DOMAIN wk : wk[j].tx # <<>>

(* C2. Every epub_detail response whose status is LOADING has              *)
(* chapterCount = 0.                                                       *)
C2_LoadingCountZero ==
    (resp.op = "detail" /\ resp.code = 200 /\ resp.view.status = "LOADING")
        => resp.view.chapterCount = 0

(* C3. Every 201 response of epub_upload has status LOADING.               *)
C3_UploadReturnsLoading ==
    (resp.op = "upload" /\ resp.code = 201) => resp.view.status = "LOADING"

(* C4. The committed status of a record changes only from LOADING to       *)
(* PARSED or from LOADING to FAILED, and no record is ever removed: a      *)
(* terminal status is never left.                                          *)
C4_StatusTransitions ==
    [][ /\ Len(epubs') >= Len(epubs)
        /\ \A i \in 1..Len(epubs) :
             epubs'[i].status # epubs[i].status
                => /\ epubs[i].status = "LOADING"
                   /\ epubs'[i].status \in {"PARSED", "FAILED"} ]_vars

\* Both terminal statuses have been reached, by threads that have returned.
C4_Witness ==
    \E i, j \in DOMAIN wk :
        /\ Finished(i) /\ epubs[i].status = "PARSED"
        /\ Finished(j) /\ epubs[j].status = "FAILED"

(* C5. For a readable archive with N >= 1 sections, once its thread has    *)
(* returned without an exception the record is PARSED, N chapter rows are  *)
(* committed and the chapter list has chapterNumber 1..N in that order;    *)
(* every 200 response of epub_chapters is such a list.                     *)
C5_ParsedChapters ==
    /\ \A i \in DOMAIN wk :
         (Finished(i) /\ wk[i].e = NoMsg /\ ArchiveOf(i).readable
            /\ Sections(i) >= 1)
         => /\ epubs[i].status = "PARSED"
            /\ ChapterCount(chapters, i) = Sections(i)
            /\ Numbers(ChapterList(chapters, i)) = OneTo(Sections(i))
    /\ (resp.op = "chapters" /\ resp.code = 200)
         => Numbers(resp.view) = OneTo(Sections(resp.id))

\* The archive of four entries and two sections is parsed and listed.
C5_Witness ==
    /\ resp.op = "chapters" /\ resp.code = 200
    /\ Finished(resp.id) /\ wk[resp.id].e = NoMsg
    /\ Len(ArchiveOf(resp.id).spine) = 4
    /\ Numbers(resp.view) = <<1, 2>>

(* C6. An owner's epub_chapters call that reads status LOADING answers 409 *)
(* epub_still_loading, never a chapter list, wherever the thread stands.   *)
C6_StillLoading ==
    (resp.op = "chapters" /\ OwnerFound /\ resp.row.status = "LOADING")
        => resp.code = 409 /\ resp.error = "epub_still_loading"

\* The call arrives while the thread holds uncommitted rows and has written
\* chapter files.
C6_Witness ==
    /\ resp.op = "chapters" /\ OwnerFound
    /\ resp.code = 409 /\ resp.error = "epub_still_loading"
    /\ resp.id \in DOMAIN wk /\ wk[resp.id].tx # <<>>
    /\ TxtFiles(resp.id) # {}

(* C7. An owner's epub_chapters call that reads status FAILED answers 409  *)
(* epub_parse_failed, never a chapter list, also when chapter rows of the  *)
(* epub are committed.                                                     *)
C7_ParseFailed ==
    (resp.op = "chapters" /\ OwnerFound /\ resp.row.status = "FAILED")
        => resp.code = 409 /\ resp.error = "epub_parse_failed"

\* The FAILED epub has committed chapter rows.
C7_Witness ==
    /\ resp.op = "chapters" /\ OwnerFound
    /\ resp.code = 409 /\ resp.error = "epub_parse_failed"
    /\ ChapterCount(chapters, resp.id) > 0

C9_UnreadableFailed ==
    \A i \in DOMAIN wk :
        (Finished(i) /\ ~ArchiveOf(i).readable)
        => /\ epubs[i].status = "FAILED"
           /\ ChapterCount(chapters, i) = 0
           /\ TxtFiles(i) = {}

(* C9, amended. For an archive read_epub cannot open, once the thread has  *)
(* returned there is no chapter row and no chapter-text file; and the      *)
(* record is FAILED provided the thread opened its connection and its      *)
(* failure-flip UPDATE and commit succeeded.                               *)
C9_UnreadableAmended ==
    \A i \in DOMAIN wk :
        (Finished(i) /\ ~ArchiveOf(i).readable)
        => /\ ChapterCount(chapters, i) = 0
           /\ TxtFiles(i) = {}
           /\ (wk[i].e = ExcBadZip /\ ~wk[i].flip_failed)
                => /\ epubs[i].status = "FAILED"
                   /\ epubs[i].error_message = ExcBadZip

\* read_epub raised and the failure flip was committed.
C9_Witness ==
    \E i \in DOMAIN wk :
        /\ Finished(i) /\ ~ArchiveOf(i).readable
        /\ wk[i].e = ExcBadZip /\ ~wk[i].flip_failed
        /\ epubs[i].status = "FAILED"

(* C10. Once a thread that raised has returned, and every os.remove of its *)
(* cleanup succeeded, no chapter-text file it created is in the uploads    *)
(* folder.                                                                 *)
C10_NoBlobAfterFailure ==
    \A i \in DOMAIN wk :
        (Finished(i) /\ wk[i].e # NoMsg /\ RemovesSucceeded(i))
        => TxtFiles(i) = {}


(* C11. A record whose committed status is FAILED has no committed chapter *)
(* row, and epub_detail reports chapterCount = 0 with status FAILED, also  *)
(* when the run failed after sections had been inserted.                   *)
C11_FailedHasNoChapters ==
    /\ \A i \in 1..Len(epubs) :
         epubs[i].status = "FAILED" => ChapterCount(chapters, i) = 0
    /\ (resp.op = "detail" /\ resp.code = 200 /\ resp.view.status = "FAILED")
         => resp.view.chapterCount = 0

(* C12. When the failure flip of a thread itself fails, the thread still   *)
(* returns: the record stays LOADING, no chapter row of the epub is        *)
(* committed and the thread's connection no longer holds the write lock.   *)
C12_FlipFailureSwallowed ==
    \A i \in DOMAIN wk :
        wk[i].flip_failed
        => /\ Finished(i)
           /\ epubs[i].status = "LOADING"
           /\ ChapterCount(chapters, i) = 0
           /\ wlock # i

\* The flip failed after open() raised on the second section: the first
\* section's row was in the thread's transaction.
C12_Witness ==
    \E i \in DOMAIN wk :
        /\ wk[i].flip_failed /\ Finished(i)
        /\ wk[i].e = ExcOpen /\ wk[i].chapter_files # <<>>
        /\ epubs[i].status = "LOADING"


\* A file name epub_upload refuses: no 'file' part, an empty name, or a
\* suffix other than .epub.
Refused(name) == name = NoFile \/ name = <<>> \/ Suffix(name) # EpubExt

(* C13. An authenticated upload without a file part, with an empty file    *)
(* name or with a suffix other than .epub (any letter case) is answered    *)
(* 400 in the step that receives it, with error invalid_file_type for the  *)
(* wrong suffix, and that step leaves the tables, the uploads folder and   *)
(* the threads as they were.                                               *)
C13_RejectedBeforeEffects ==
    [][ \A u \in Users, name \in FileNames \cup {NoFile} :
          (EpubUpload(u, name) /\ Refused(name))
          => /\ resp'.op = "upload" /\ resp'.code = 400
             /\ (name # NoFile /\ name # <<>>)
                    => resp'.error = "invalid_file_type"
             /\ req' = NoReq
             /\ UNCHANGED <<epubs, chapters, files, wk, wlock>> ]_vars

\* A wrong suffix is refused while a record, its archive and its thread
\* exist.
C13_Witness ==
    /\ resp.op = "upload" /\ resp.code = 400
    /\ resp.error = "invalid_file_type"
    /\ Len(epubs) = 1 /\ DOMAIN wk = {1} /\ SavedEpubs # {}


(* C14. epub_detail for a signed-in user answers 404 when no row has the   *)
(* id, also when the user owns nothing; 403 when the row exists and        *)
(* belongs to someone else; and 200 with the view of that row only when    *)
(* the user is its owner.                                                  *)
C14_DetailNotFoundThenOwner ==
    (resp.op = "detail" /\ resp.user \in Users)
    => IF resp.id > Len(epubs)
       THEN resp.code = 404 /\ resp.view = NoView
       ELSE IF epubs[resp.id].owner # resp.user
       THEN resp.code = 403 /\ resp.view = NoView
       ELSE /\ resp.code = 200
            /\ resp.view.id = resp.id
            /\ resp.view.title = epubs[resp.id].title
            /\ resp.view.originalFilename = epubs[resp.id].original_filename

\* A user who owns no record asks for an id that does not exist, while a
\* record of another user exists: the answer is 404, not 403.
C14_Witness ==
    /\ resp.op = "detail" /\ resp.user \in Users
    /\ resp.id > Len(epubs) /\ resp.code = 404
    /\ Len(epubs) = 1 /\ epubs[1].owner # resp.user

(* C15. epub_chapters answers a signed-in user who is not the owner of an  *)
(* existing record with the same bare 403 whatever the record's status and *)
(* chapter rows are: the response carries nothing read from the record.    *)
C15_ChaptersOwnerBeforeStatus ==
    (/\ resp.op = "chapters" /\ resp.user \in Users
     /\ resp.id <= Len(epubs) /\ epubs[resp.id].owner # resp.user)
    => resp = Response(Request("chapters", "rows", resp.user, resp.id),
                       403, "", NoView)

\* The record asked for is FAILED with committed chapter rows, and another
\* record is PARSED.
C15_Witness ==
    /\ resp.op = "chapters" /\ resp.user \in Users /\ resp.code = 403
    /\ resp.id <= Len(epubs) /\ epubs[resp.id].owner # resp.user
    /\ epubs[resp.id].status = "FAILED"
    /\ ChapterCount(chapters, resp.id) > 0
    /\ \E j \in 1..Len(epubs) : epubs[j].status = "PARSED"


(* C16. Every request of epub_upload, epub_detail, epub_chapters and       *)
(* epub_list whose token resolves to no user is answered with a bare 403   *)
(* in the step that receives it, also when the id asked for has no row,    *)
(* and that step leaves the tables, the uploads folder and the threads as  *)
(* they were.                                                              *)
C16_NoSessionForbidden ==
    [][ (resp' # NoResp /\ resp'.user = NoUser)
        => /\ resp'.op \in {"upload", "detail", "chapters", "list"}
           /\ resp'.code = 403 /\ resp'.error = "" /\ resp'.view = NoView
           /\ resp'.row = NoRow
           /\ req = NoReq /\ req' = NoReq
           /\ UNCHANGED <<epubs, chapters, files, wk, wlock>> ]_vars

\* epub_detail is asked without a session for an id that has no row, while
\* another record exists.
C16_Witness ==
    /\ resp.user = NoUser /\ resp.op = "detail" /\ resp.code = 403
    /\ resp.id > Len(epubs) /\ Len(epubs) = 1


(* C17. A parser thread is started only by the upload that has just        *)
(* inserted a record, for that record's fresh id and stored file; a        *)
(* started thread is never started again; every 201 of epub_upload has     *)
(* its thread, every other answer of epub_upload started none; and every   *)
(* record has exactly its own thread once its upload has passed            *)
(* thread.start.                                                           *)
C17_OneWorkerPerUpload ==
    [][ /\ (DOMAIN wk' # DOMAIN wk)
           => \E i \in DOMAIN wk' :
                 /\ i \notin DOMAIN wk
                 /\ DOMAIN wk' = DOMAIN wk \cup {i}
                 /\ i = Len(epubs) /\ epubs' = epubs
                 /\ req.op = "upload" /\ req.pc = "start" /\ req.id = i
                 /\ wk'[i] = NewWorker(epubs[i].stored_filename)
        /\ \A i \in DOMAIN wk :
              /\ i \in DOMAIN wk'
              /\ wk'[i].filepath = wk[i].filepath
              /\ wk'[i].pc = "open" => wk[i].pc = "open"
        /\ (resp'.op = "upload" /\ resp'.code = 201)
              => resp'.id \in DOMAIN wk'
        /\ (resp'.op = "upload" /\ resp'.code # 201) => wk' = wk
        /\ \A i \in 1..Len(epubs') :
              \/ i \in DOMAIN wk'
              \/ req'.op = "upload" /\ req'.pc = "start" /\ req'.id = i
        /\ DOMAIN wk' \subseteq 1..Len(epubs') ]_vars

\* The second upload is answered 201 while the first record's thread is
\* still running: two threads, one per record.
C17_Witness ==
    /\ resp.op = "upload" /\ resp.code = 201 /\ resp.id = 2
    /\ DOMAIN wk = {1, 2}
    /\ wk[1].pc = "loop" /\ wk[2].pc = "open"
    /\ wk[1].filepath # wk[2].filepath


(* C18. epub_upload never waits for the thread it started: from            *)
(* thread.start on, its next step (the read-back and the 201) can be taken *)
(* wherever the thread stands, before its first step as well as while it   *)
(* holds the write lock, and the handler has no state in which it waits.   *)
C18_UploadNeverWaits ==
    /\ (Quiet /\ req.op = "upload" /\ req.pc = "reread")
           => ENABLED EpubUploadRespond
    /\ (Quiet /\ req.op = "upload" /\ req.pc = "start")
           => ENABLED EpubUploadStart
    /\ req.op = "upload" => req.pc \in {"insert", "start", "reread"}

\* The 201 is on its way while the thread has not taken a step.
C18_Witness ==
    /\ resp.op = "upload" /\ resp.code = 201
    /\ wk[resp.id].pc = "open"
    /\ resp.view.status = "LOADING"


(* C19. Once epub_detail has handed a client a terminal status (PARSED or  *)
(* FAILED) for a record, every later epub_detail call on that record by    *)
(* its owner reports the same status and the same chapterCount; in         *)
(* particular it never reports LOADING again.                              *)
C19_MonotonicReads ==
    (resp.op = "detail" /\ resp.code = 200 /\ resp.id \in DOMAIN seen)
    => Observation(resp.view) = seen[resp.id]

\* A second read of a PARSED record after the other record's thread has
\* committed its own chapters and status.
C19_Witness ==
    /\ resp.op = "detail" /\ resp.code = 200 /\ resp.id \in DOMAIN seen
    /\ seen[resp.id] = [status |-> "PARSED", chapterCount |-> 2]
    /\ \E j \in DOMAIN wk :
          j # resp.id /\ Finished(j) /\ ChapterCount(chapters, j) > 0


\* The run of record i's thread, as far as it has come, raised no exception.
NoFailureSoFar(i) == i \in DOMAIN wk => wk[i].e = NoMsg

(* C20. For a readable archive with at least one section whose thread has  *)
(* raised no exception, every epub_detail call of the owner is answered    *)
(* 200 with status LOADING or PARSED, never FAILED, and with the title and *)
(* author that _extract_epub_metadata gave at the upload.                  *)
C20_ValidNeverFailed ==
    (/\ resp.op = "detail" /\ resp.user \in Users
     /\ resp.id <= Len(epubs) /\ epubs[resp.id].owner = resp.user
     /\ ArchiveOf(resp.id).readable /\ Sections(resp.id) >= 1
     /\ NoFailureSoFar(resp.id))
    => /\ resp.code = 200
       /\ resp.view.status \in {"LOADING", "PARSED"}
       /\ resp.view.title =
            ExtractEpubMetadata(ArchiveOf(resp.id),
                                epubs[resp.id].original_filename).title
       /\ resp.view.author =
            ExtractEpubMetadata(ArchiveOf(resp.id),
                                epubs[resp.id].original_filename).author

\* The owner reads a record parsed without failure while the other record
\* is FAILED.
C20_Witness ==
    /\ resp.op = "detail" /\ resp.code = 200
    /\ resp.view.status = "PARSED"
    /\ Finished(resp.id) /\ wk[resp.id].e = NoMsg
    /\ Sections(resp.id) = 2
    /\ \E j \in 1..Len(epubs) : epubs[j].status = "FAILED"


(* C21. Once epub_chapters has handed a client the chapter list of a       *)
(* record (which it does only for a PARSED record), every later            *)
(* epub_chapters call of the owner on that record returns the same views   *)
(* in the same order, ascending by chapterNumber, whatever uploads,        *)
(* threads and reads ran in between.                                       *)
C21_ChapterListStable ==
    (resp.op = "chapters" /\ resp.code = 200 /\ resp.id \in DOMAIN listed)
    => /\ resp.view = listed[resp.id]
       /\ \A a, b \in 1..Len(resp.view) :
             a < b => resp.view[a].chapterNumber < resp.view[b].chapterNumber

\* The list of the first record is returned again after the second
\* record's thread has committed chapter rows of its own.
C21_Witness ==
    /\ resp.op = "chapters" /\ resp.code = 200 /\ resp.id = 1
    /\ 1 \in DOMAIN listed /\ Len(resp.view) = 2
    /\ ChapterCount(chapters, 2) > 0


\* The ids of a list of record views, in the list's order.
ViewIds(list) == [j \in 1..Len(list) |-> list[j].id]

(* C22. epub_list answers a signed-in user with the views of exactly the   *)
(* records that user owns (the empty list if there are none), a record     *)
(* created later before a record created earlier, each with a chapterCount *)
(* that is a count of its committed chapter rows.                          *)
C22_ListNewestFirst ==
    (resp.op = "list" /\ resp.user \in Users)
    => /\ resp.code = 200
       /\ Range(ViewIds(resp.view)) = OwnedBy(epubs, resp.user)
       /\ Len(resp.view) = Cardinality(OwnedBy(epubs, resp.user))
       /\ \A a, b \in 1..Len(resp.view) :
             a < b => resp.view[a].id > resp.view[b].id
       /\ \A j \in 1..Len(resp.view) :
             resp.view[j].chapterCount
                 <= ChapterCount(chapters, resp.view[j].id)


(* C23. No request is answered with an error because of a parser thread    *)
(* at work, and no thread's run fails because of another thread: no        *)
(* response is a 500 and no thread has a write refused with "database is   *)
(* locked".                                                                *)
C23_WorkerNeverBlocks ==
    /\ resp.code # 500
    /\ \A i \in DOMAIN wk : wk[i].e # ExcLocked


(* C24. A committed record has an error_message only if its status is      *)
(* FAILED, and an error_message is at most 1024 characters long; the       *)
(* same holds of every record view handed to a client.                     *)
C24_ErrorOnlyWhenFailed ==
    /\ \A i \in 1..Len(epubs) :
         /\ epubs[i].error_message # NoMsg => epubs[i].status = "FAILED"
         /\ epubs[i].error_message.len <= MsgLimit
    /\ (resp.op \in {"upload", "detail"} /\ resp.code \in {200, 201})
         => /\ resp.view.errorMessage # NoMsg => resp.view.status = "FAILED"
            /\ resp.view.errorMessage.len <= MsgLimit
    /\ (resp.op = "list" /\ resp.code = 200)
         => \A j \in 1..Len(resp.view) :
              /\ resp.view[j].errorMessage # NoMsg
                    => resp.view[j].status = "FAILED"
              /\ resp.view[j].errorMessage.len <= MsgLimit

\* An exception text of 2000 characters was stored cut to 1024, next to a
\* PARSED record without a message.
C24_Witness ==
    /\ resp.op = "detail" /\ resp.code = 200
    /\ resp.view.status = "FAILED"
    /\ resp.view.errorMessage.len = MsgLimit
    /\ wk[resp.id].e.len > MsgLimit
    /\ \E j \in 1..Len(epubs) :
         epubs[j].status = "PARSED" /\ epubs[j].error_message = NoMsg


(* C25. _extract_epub_metadata always returns: title and author are at     *)
(* most 512 characters; for a file read_epub raises on they are the        *)
(* file name without its extension, cut to 512, and ''; and an upload      *)
(* with the .epub extension is taken on to the INSERT of a LOADING record  *)
(* and answered 201 whether or not its bytes can be read.                  *)
C25_MetadataNeverFails ==
    /\ \A i \in 1..Len(epubs) :
         LET row == epubs[i]
             stem == Stem(row.original_filename)
         IN /\ row.title.len <= TitleLimit
            /\ row.author.len <= TitleLimit
            /\ ~ArchiveOf(i).readable
                 => /\ row.title = Text(stem, Min(TextLen(stem), TitleLimit))
                    /\ row.author = Empty
    /\ (req.op = "upload" /\ req.pc = "insert") => req.row.status = "LOADING"
    /\ (req.op = "upload" /\ req.pc = "start")
         => epubs[req.id].status = "LOADING"
    /\ resp.op = "upload"
         => /\ resp.code = 201
            /\ resp.id <= Len(epubs)
            /\ resp.view.title = epubs[resp.id].title
            /\ resp.view.author = epubs[resp.id].author

\* A file of unreadable bytes with a name of 600 characters before .epub is
\* answered 201 with the name cut to 512 as its title.
C25_Witness ==
    /\ resp.op = "upload" /\ resp.code = 201
    /\ ~ArchiveOf(resp.id).readable
    /\ TextLen(Stem(epubs[resp.id].original_filename)) > TitleLimit
    /\ resp.view.title.len = TitleLimit
    /\ resp.view.author = Empty


(* C26. A failure of a parser thread stays inside the thread: a step of a  *)
(* thread that has raised touches no request and no response, and of the   *)
(* committed tables it changes nothing but the status and error_message of *)
(* its own record, which become FAILED and the cut message.                *)
C26_FailureConfined ==
    [][\A i \in DOMAIN wk :
         (wk[i].e # NoMsg /\ wk'[i] # wk[i])
         => /\ req' = req /\ resp' = resp
            /\ chapters' = chapters
            /\ \A j \in 1..Len(epubs) :
                 [epubs'[j] EXCEPT !.status = "", !.error_message = NoMsg]
                   = [epubs[j] EXCEPT !.status = "", !.error_message = NoMsg]
            /\ epubs'[i] # epubs[i]
                 => /\ epubs'[i].status = "FAILED"
                    /\ epubs'[i].error_message = Truncate(wk[i].e, MsgLimit)
      ]_vars


(* C27. epub_upload saves the file, then inserts and commits the LOADING   *)
(* record, then starts the thread: a record that appears names a saved     *)
(* file, is LOADING and has no thread yet; a thread that is started is     *)
(* given the file of a committed LOADING record; and when the thread takes *)
(* its first step the record is still LOADING and the file still there.    *)
C27_SaveInsertStart ==
    [][ /\ Len(epubs') > Len(epubs)
           => /\ epubs'[Len(epubs')].stored_filename \in SavedEpubs
              /\ epubs'[Len(epubs')].status = "LOADING"
              /\ Len(epubs') \notin DOMAIN wk'
              /\ files' = files
        /\ \A i \in (DOMAIN wk') \ (DOMAIN wk) :
              /\ i \in 1..Len(epubs)
              /\ epubs[i].status = "LOADING"
              /\ wk'[i].filepath = epubs[i].stored_filename
              /\ wk'[i].filepath \in SavedEpubs
        /\ \A i \in DOMAIN wk :
              (wk[i].pc = "open" /\ wk'[i].pc # "open")
              => /\ i \in 1..Len(epubs)
                 /\ epubs[i].status = "LOADING"
                 /\ wk[i].filepath = epubs[i].stored_filename
                 /\ wk[i].filepath \in SavedEpubs
      ]_vars

\* The second record's thread has taken its first step, reading the file
\* saved for it, while its upload has yet to read the row back.
C27_Witness ==
    /\ req.op = "upload" /\ req.pc = "reread" /\ req.id = 2
    /\ 2 \in DOMAIN wk /\ wk[2].pc = "loop"
    /\ epubs[2].status = "LOADING"
    /\ wk[2].filepath = epubs[2].stored_filename
    /\ wk[2].filepath \in SavedEpubs


\* The place in the spine of its n-th section.
NthSection(spine, n) ==
    CHOOSE idx \in 1..Len(spine) :
        /\ YieldsSection(spine[idx])
        /\ SectionCount(SubSeq(spine, 1, idx)) = n

(* C28. The committed chapter rows of an epub carry the numbers 1..k, each *)
(* once, k being at most the number of sections of its spine; the row      *)
(* numbered n is the one of the n-th section in spine order (its title and *)
(* its text file are that section's), so that missing entries, entries     *)
(* that are not documents, navigation documents and documents without text *)
(* take no number.                                                         *)
C28_NumbersGapless ==
    \A i \in 1..Len(epubs) :
        LET ids == ChapterIds(chapters, i)
            spine == ArchiveOf(i).spine
        IN
        /\ {chapters[c].chapter_number : c \in ids} = 1..Cardinality(ids)
        /\ Cardinality(ids) <= SectionCount(spine)
        /\ \A c \in ids :
             LET n == chapters[c].chapter_number
                 idx == NthSection(spine, n)
             IN
             /\ chapters[c].title = ChapterTitle(spine[idx], n)
             /\ chapters[c].filename \in DOMAIN files
                  => files[chapters[c].filename] = FullText(i, idx)
             /\ \A d \in ids : d < c => chapters[d].chapter_number < n

\* A parsed epub whose spine of four entries gave two chapters: the entries
\* before and between its sections took no number.
C28_Witness ==
    \E i \in 1..Len(epubs) :
        /\ epubs[i].status = "PARSED"
        /\ Len(ArchiveOf(i).spine) = 4
        /\ ~YieldsSection(ArchiveOf(i).spine[1])
        /\ ~YieldsSection(ArchiveOf(i).spine[3])
        /\ Numbers(ChapterList(chapters, i)) = OneTo(2)


\* The section a committed chapter row was made from.
SectionOf(row) ==
    LET spine == ArchiveOf(row.epubid).spine
    IN spine[NthSection(spine, row.chapter_number)]

\* The first heading of a section in the order H1, H2, H3 (NoTag: none).
FirstHeading(kind) ==
    IF kind.h1.found THEN kind.h1
    ELSE IF kind.h2.found THEN kind.h2
    ELSE kind.h3

(* C29 as stated. Every chapter row's title is non-empty and at most 512   *)
(* characters: the text of the section's first H1 if it has one, else of   *)
(* its first H2, else of its first H3, cut to 512, and "Chapter n" with    *)
(* the row's own number when the section has no heading.                   *)
C29_TitleOfFirstHeading ==
    \A c \in 1..Len(chapters) :
        LET row == chapters[c]
            h == FirstHeading(SectionOf(row))
        IN
        /\ row.title.len \in 1..TitleLimit
        /\ row.title = IF h.found THEN Text(h.text, Min(h.len, TitleLimit))
                       ELSE ChapterLabel(row.chapter_number)

(* C29, amended. Every chapter row's title is non-empty and at most 512    *)
(* characters: the stripped text of the section's first heading in the     *)
(* order H1, H2, H3, cut to 512, when that text is not empty; "Chapter n"  *)
(* with the row's own number when the section has no heading or when its   *)
(* first heading has no text, whatever the lower headings hold.            *)
C29_TitleAmended ==
    \A c \in 1..Len(chapters) :
        LET row == chapters[c]
            h == FirstHeading(SectionOf(row))
        IN
        /\ row.title.len \in 1..TitleLimit
        /\ row.title = IF h.found /\ h.len > 0
                       THEN Text(h.text, Min(h.len, TitleLimit))
                       ELSE ChapterLabel(row.chapter_number)

\* A committed chapter whose section has an H1 without text above an H2
\* with text, and is titled "Chapter n".
C29_Witness ==
    \E c \in 1..Len(chapters) :
        LET kind == SectionOf(chapters[c]) IN
        /\ kind.h1.found /\ kind.h1.len = 0
        /\ kind.h2.found /\ kind.h2.len > 0
        /\ chapters[c].title = ChapterLabel(chapters[c].chapter_number)


(* C30. The filename of every committed chapter row names a chapter-text   *)
(* file that is in the uploads folder, also after a thread that raised     *)
(* part-way has removed the files it had written.                          *)
C30_ChapterFileExists ==
    \A c \in 1..Len(chapters) :
        /\ chapters[c].filename \in DOMAIN files
        /\ files[chapters[c].filename]
             = FullText(chapters[c].epubid,
                        NthSection(ArchiveOf(chapters[c].epubid).spine,
                                   chapters[c].chapter_number))


(* C31. In the committed tables a PARSED record has at least one chapter   *)
(* row and a LOADING record has none: the rows a running thread has        *)
(* inserted stay in its open transaction until its status flip commits.    *)
C31_ParsedHasLoadingHasNone ==
    \A i \in 1..Len(epubs) :
        /\ epubs[i].status = "PARSED" => ChapterCount(chapters, i) >= 1
        /\ epubs[i].status = "LOADING" => ChapterCount(chapters, i) = 0

\* One record is PARSED with its chapters while the thread of another has
\* inserted a row that is not committed: that record is LOADING without rows.
C31_Witness ==
    \E i, j \in 1..Len(epubs) :
        /\ epubs[i].status = "PARSED" /\ ChapterCount(chapters, i) = 2
        /\ epubs[j].status = "LOADING"
        /\ j \in DOMAIN wk /\ wk[j].tx # <<>>
        /\ ChapterCount(chapters, j) = 0


\* The run of thread i could open its connection and its last write of the
\* status, the flip of line 165-176 or that of lines 189-193, was committed.
StatusWritten(i) == wk[i].e # ExcConnect /\ ~wk[i].flip_failed

(* C32. Every record that is inserted gets its thread, and every thread    *)
(* returns; when it has returned the record is PARSED or FAILED unless the *)
(* thread could not open its connection or its failure flip failed.        *)
C32_EveryRunEnds ==
    \A i \in EpubIds :
        (i \in 1..Len(epubs))
          ~> (/\ Finished(i)
              /\ StatusWritten(i) => Terminal(epubs[i].status))

\* A thread whose INSERT was refused under the other thread's write lock
\* has returned, and its failure flip has set the record FAILED.
C32_Witness ==
    \E i \in DOMAIN wk :
        /\ Finished(i) /\ wk[i].e = ExcLocked /\ StatusWritten(i)
        /\ epubs[i].status = "FAILED"


\* A record without the two columns its thread writes.
Fixed(row) == [row EXCEPT !.status = "", !.error_message = NoMsg]

\* The files that are not chapter texts of epub i.
NotTxtOf(i, dir) == {f \in DOMAIN dir : ~(f[1] = "txt" /\ f[2] = i)}

(* C33. A step of the thread of epub i changes, of the tables and the      *)
(* uploads folder, only the status and error_message of record i, the      *)
(* chapter rows of epub i, which it adds to, and the chapter-text files of *)
(* epub i: the other columns of record i, its archive, and the records,    *)
(* chapter rows and files of every other epub stay as they were, also      *)
(* while another thread is running.                                        *)
C33_WorkerFrame ==
    [][\A i \in DOMAIN wk :
         wk'[i] # wk[i]
         => /\ Len(epubs') = Len(epubs)
            /\ Fixed(epubs'[i]) = Fixed(epubs[i])
            /\ \A j \in (1..Len(epubs)) \ {i} : epubs'[j] = epubs[j]
            /\ Len(chapters') >= Len(chapters)
            /\ SubSeq(chapters', 1, Len(chapters)) = chapters
            /\ \A c \in (Len(chapters) + 1)..Len(chapters') :
                  chapters'[c].epubid = i
            /\ NotTxtOf(i, files') = NotTxtOf(i, files)
            /\ \A f \in NotTxtOf(i, files) : files'[f] = files[f]
            /\ \A j \in (DOMAIN wk) \ {i} : wk'[j] = wk[j]
      ]_vars

\* Two threads at work at once: the first has inserted a row of its own,
\* the second has written a file of its own and was refused its INSERT.
C33_Witness ==
    /\ DOMAIN wk = {1, 2}
    /\ wk[1].pc = "loop" /\ wk[1].tx # <<>>
    /\ wk[2].pc = "except" /\ wk[2].e = ExcLocked
    /\ TxtFiles(1) # {} /\ TxtFiles(2) # {}


\* Thread i takes a step.
StepOf(i) == i \in DOMAIN wk /\ wk'[i] # wk[i]

(* C34. The connection of a thread is its own: it is open only from the    *)
(* thread's sqlite3.connect to its return and closed when the thread has   *)
(* returned, however it returned; a new thread starts without one; the     *)
(* write lock of a thread's connection is taken and given up by that       *)
(* thread's steps only, and the rows of its transaction are committed by   *)
(* its steps only; a handler's step, on the request's connection, changes  *)
(* no thread's connection or transaction.                                  *)
C34_OwnConnection ==
    [][ /\ \A i \in DOMAIN wk' :
              /\ wk'[i].db => wk'[i].pc \in {"loop", "except", "flip"}
              /\ wk'[i].pc = "done" => ~wk'[i].db /\ wlock' # i
              /\ i \notin DOMAIN wk => ~wk'[i].db /\ wk'[i].tx = <<>>
              /\ (wk'[i].tx # <<>> \/ wlock' = i) => wk'[i].db
        /\ \A i \in DOMAIN wk :
              (wk'[i].db # wk[i].db \/ wk'[i].tx # wk[i].tx
                 \/ (wlock = i) # (wlock' = i))
              => StepOf(i) /\ req' = req /\ resp' = resp
        /\ chapters' # chapters
              => \E i \in DOMAIN wk :
                    /\ StepOf(i) /\ wk[i].db
                    /\ chapters' = chapters \o wk[i].tx
        /\ (req' # req \/ resp' # resp)
              => /\ chapters' = chapters /\ wlock' = wlock
                 /\ \A i \in DOMAIN wk : wk'[i] = wk[i]
      ]_vars

\* While a request is served on its own connection, one thread holds rows
\* in its open transaction and the other has returned after a failed
\* failure flip, its connection closed.
C34_Witness ==
    /\ req.op = "detail" /\ req.pc = "count"
    /\ DOMAIN wk = {1, 2}
    /\ wk[1].db /\ wk[1].tx # <<>> /\ wlock = 1 /\ chapters = <<>>
    /\ Finished(2) /\ wk[2].flip_failed /\ ~wk[2].db

====
